---- MODULE Spec2Model ----
(***************************************************************************)
(* Crash predictor (src/app.py): a Streamlit script.  Every interaction of *)
(* a browser session re-executes main() from top to bottom against that    *)
(* session's st.session_state and widget state, and against four files.    *)
(*                                                                         *)
(* Widget state lives across runs: st.file_uploader returns the file it    *)
(* holds on every run until the file is removed, the slider keeps its      *)
(* value, and st.button is True only in the run its click triggers.        *)
(*                                                                         *)
(* Multipliers are fixed-point numbers in units of 1/10000 (2.0 = 20000);  *)
(* balances are fixed-point numbers in units of 0.01 SOL (0.1 = 10).       *)
(* A file is <<>> when it does not exist and <<content>> when it does.     *)
(***************************************************************************)
EXTENDS Integers, Sequences, FiniteSets, TLC

\* ---- bounds of the model ----
\* valid single entries accepted over a behaviour
MaxAdds == 2

\* ---- constants of the program ----
HISTORY_FILE == "history.csv"
RESULTS_FILE == "results.csv"
FLAT_FILE == "sol_balance.txt"
FIXED_FILE == "fixed_balance.txt"
INITIAL_BALANCE == 10
FLAT_BET == 1
FIXED_BET == 2
WINDOW == 20
MIN_UNDERS_FOR_ABOVE == 14
\* the literal 2.0, in units of 1/10000
THRESHOLD == 20000
\* the literal 10 of normalize_input, in units of 1/10000
NORMALIZE_ABOVE == 100000
\* the slider's range
SLIDER_MIN == 10
SLIDER_MAX == 20
\* the positions the slider is moved to: both ends, the default and its neighbours
SliderStops == {SLIDER_MIN, 13, MIN_UNDERS_FOR_ABOVE, 15, SLIDER_MAX}

Sessions == {1, 2}
FileNames == {HISTORY_FILE, RESULTS_FILE, FLAT_FILE, FIXED_FILE}
Labels == {"Above", "Under"}
\* key "last_prediction" not in st.session_state
NoPrediction == "absent"
\* the uploader widget holds no file
NoUpload == "none"

VARIABLES
    fs,              \* the four files: name -> <<>> (absent) or <<content>>
    started,         \* session -> "history" in st.session_state
    history,         \* session -> st.session_state.history
    last_prediction, \* session -> st.session_state.last_prediction
    uploaded,        \* session -> file held by the st.file_uploader widget
    min_unders,      \* session -> value of the sidebar slider
    shown,           \* session -> what the prediction block wrote in the last run
    adds             \* valid single entries so far (bounds the behaviour)

vars == <<fs, started, history, last_prediction, uploaded, min_unders, shown, adds>>

\* ---- inputs ----
Rep(v, n) == [i \in 1..n |-> v]

\* The CSV files a user may upload: column names and the columns' values.
\* "A": 20 rounds, the multiplier column is the second one.
\* "B": 19 values in a first column that is not named multiplier; its first
\*      value is 187, typed as a percentage.
\* The other files are copies of history.csv as save_history writes it after
\* one or two of 2.0, 2.5 and 10 were entered by hand: one column, multiplier.
HistoryCopies ==
    [H1 |-> <<20000>>, H2 |-> <<25000>>, H3 |-> <<100000>>,
     H11 |-> <<20000, 20000>>, H12 |-> <<20000, 25000>>, H13 |-> <<20000, 100000>>,
     H21 |-> <<25000, 20000>>, H22 |-> <<25000, 25000>>, H23 |-> <<25000, 100000>>,
     H31 |-> <<100000, 20000>>, H32 |-> <<100000, 25000>>, H33 |-> <<100000, 100000>>]

HistoryCopyIds == DOMAIN HistoryCopies

Uploads ==
    [A |-> [names |-> <<"round", "multiplier">>,
            cols |-> << [i \in 1..20 |-> i],
                        <<20000>> \o Rep(15000, 13) \o Rep(25000, 6) >>],
     B |-> [names |-> <<"value">>,
            cols |-> << <<1870000>> \o Rep(15000, 18) >>]]
    @@ [id \in HistoryCopyIds |->
            [names |-> <<"multiplier">>, cols |-> <<HistoryCopies[id]>>]]

UploadIds == {"A", "B"}

\* The texts typed into "Enter multiplier".
Texts == {"150", "2.0", "2.5", "10", "abc"}

\* float(new_val): <<>> when it raises ValueError, else <<value>>.
float(text) ==
    CASE text = "150" -> <<1500000>>
      [] text = "2.0" -> <<20000>>
      [] text = "2.5" -> <<25000>>
      [] text = "10" -> <<100000>>
      [] OTHER -> <<>>

\* ---- data helpers ----
exists(f, file) == f[file] # <<>>

remove(f, file) == [f EXCEPT ![file] = <<>>]

load_csv(file) ==
    LET df == Uploads[file]
    IN  IF \E i \in 1..Len(df.names) : df.names[i] = "multiplier"
        THEN df.cols[CHOOSE i \in 1..Len(df.names) : df.names[i] = "multiplier"]
        ELSE df.cols[1]

load_history(f) ==
    IF exists(f, HISTORY_FILE) THEN f[HISTORY_FILE][1] ELSE <<>>

save_history(f, data) == [f EXCEPT ![HISTORY_FILE] = <<data>>]

load_results(f) ==
    IF exists(f, RESULTS_FILE) THEN f[RESULTS_FILE][1] ELSE <<>>

\* ---- balance handlers ----
get_flat_balance(f) ==
    IF exists(f, FLAT_FILE) THEN f[FLAT_FILE][1] ELSE INITIAL_BALANCE

get_fixed_balance(f) ==
    IF exists(f, FIXED_FILE) THEN f[FIXED_FILE][1] ELSE INITIAL_BALANCE

\* update_flat_balance with the win test actual >= 2.0
update_flat_balance_ge(f, prediction, actual) ==
    LET balance == get_flat_balance(f)
    IN  IF prediction = "Above"
        THEN [f EXCEPT ![FLAT_FILE] =
                 <<balance + (IF actual >= THRESHOLD THEN FLAT_BET ELSE -FLAT_BET)>>]
        ELSE f

update_flat_balance(f, prediction, actual) ==
    LET balance == get_flat_balance(f)
    IN  IF prediction = "Above"
        THEN [f EXCEPT ![FLAT_FILE] =
                 <<balance + (IF actual > THRESHOLD THEN FLAT_BET ELSE -FLAT_BET)>>]
        ELSE f

\* update_fixed_balance staking FLAT_BET
update_fixed_balance_flatbet(f, actual) ==
    LET balance == get_fixed_balance(f)
    IN  [f EXCEPT ![FIXED_FILE] =
            <<balance + (IF actual > THRESHOLD THEN FLAT_BET ELSE -FLAT_BET)>>]

update_fixed_balance(f, actual) ==
    LET balance == get_fixed_balance(f)
    IN  [f EXCEPT ![FIXED_FILE] =
            <<balance + (IF actual > THRESHOLD THEN FIXED_BET ELSE -FIXED_BET)>>]

\* save_result with the Above test actual >= 2.0
save_result_ge(f, prediction, actual) ==
    LET correct == (prediction = "Above" /\ actual >= THRESHOLD)
                   \/ (prediction = "Under" /\ actual <= THRESHOLD)
        result_df == load_results(f)
        f1 == [f EXCEPT ![RESULTS_FILE] =
                  <<Append(result_df, [prediction |-> prediction,
                                       actual |-> actual,
                                       correct |-> correct])>>]
        f2 == update_flat_balance(f1, prediction, actual)
    IN  IF prediction = "Above" THEN update_fixed_balance(f2, actual) ELSE f2

\* save_result updating the fixed account whatever the prediction
save_result_ungated(f, prediction, actual) ==
    LET correct == (prediction = "Above" /\ actual > THRESHOLD)
                   \/ (prediction = "Under" /\ actual <= THRESHOLD)
        result_df == load_results(f)
        f1 == [f EXCEPT ![RESULTS_FILE] =
                  <<Append(result_df, [prediction |-> prediction,
                                       actual |-> actual,
                                       correct |-> correct])>>]
        f2 == update_flat_balance(f1, prediction, actual)
    IN  update_fixed_balance(f2, actual)

\* save_result writing a ledger of the new record only
save_result_overwrite(f, prediction, actual) ==
    LET correct == (prediction = "Above" /\ actual > THRESHOLD)
                   \/ (prediction = "Under" /\ actual <= THRESHOLD)
        f1 == [f EXCEPT ![RESULTS_FILE] =
                  <<<<[prediction |-> prediction,
                       actual |-> actual,
                       correct |-> correct]>>>>]
        f2 == update_flat_balance(f1, prediction, actual)
    IN  IF prediction = "Above" THEN update_fixed_balance(f2, actual) ELSE f2

save_result(f, prediction, actual) ==
    LET correct == (prediction = "Above" /\ actual > THRESHOLD)
                   \/ (prediction = "Under" /\ actual <= THRESHOLD)
        result_df == load_results(f)
        f1 == [f EXCEPT ![RESULTS_FILE] =
                  <<Append(result_df, [prediction |-> prediction,
                                       actual |-> actual,
                                       correct |-> correct])>>]
        f2 == update_flat_balance(f1, prediction, actual)
    IN  IF prediction = "Above" THEN update_fixed_balance(f2, actual) ELSE f2

\* reset_balance that leaves the fixed account's file in place
reset_balance_nofixed(f) ==
    LET f1 == IF exists(f, FLAT_FILE) THEN remove(f, FLAT_FILE) ELSE f
    IN  IF exists(f1, RESULTS_FILE) THEN remove(f1, RESULTS_FILE) ELSE f1

\* reset_balance that leaves results.csv in place
reset_balance_keepresults(f) ==
    LET f1 == IF exists(f, FLAT_FILE) THEN remove(f, FLAT_FILE) ELSE f
    IN  IF exists(f1, FIXED_FILE) THEN remove(f1, FIXED_FILE) ELSE f1

reset_balance(f) ==
    LET f1 == IF exists(f, FLAT_FILE) THEN remove(f, FLAT_FILE) ELSE f
        f2 == IF exists(f1, FIXED_FILE) THEN remove(f1, FIXED_FILE) ELSE f1
    IN  IF exists(f2, RESULTS_FILE) THEN remove(f2, RESULTS_FILE) ELSE f2

\* ---- logic ----
\* normalize_input with the test value >= 10
normalize_input_ge(value) ==
    IF value >= NORMALIZE_ABOVE THEN value \div 100 ELSE value

\* value / 100 is exact for every value float() yields above
normalize_input(value) ==
    IF value > NORMALIZE_ABOVE THEN value \div 100 ELSE value

\* data[-window:]
Tail_window(data, window) ==
    SubSeq(data, Len(data) - window + 1, Len(data))

\* the count with recent <= threshold
RECURSIVE np_sum_le(_, _)
np_sum_le(recent, threshold) ==
    IF recent = <<>> THEN 0
    ELSE (IF Head(recent) <= threshold THEN 1 ELSE 0)
         + np_sum_le(Tail(recent), threshold)

\* int(np.sum(recent < threshold))
RECURSIVE np_sum_lt(_, _)
np_sum_lt(recent, threshold) ==
    IF recent = <<>> THEN 0
    ELSE (IF Head(recent) < threshold THEN 1 ELSE 0)
         + np_sum_lt(Tail(recent), threshold)

\* (None, None) is <<>>; otherwise <<label, under_count>>
predict_from_unders(data, threshold, window, min_unders_for_above) ==
    IF Len(data) < window THEN <<>>
    ELSE LET recent == Tail_window(data, window)
             under_count == np_sum_lt(recent, threshold)
         IN  IF under_count >= min_unders_for_above
             THEN <<"Above", under_count>>
             ELSE <<"Under", under_count>>

\* ---- accuracy tracker ----
\* the number of records: what a sum over the wrong column would give
RECURSIVE sum_rows(_)
sum_rows(results_df) ==
    IF results_df = <<>> THEN 0
    ELSE 1 + sum_rows(Tail(results_df))

\* int(results_df['correct'].sum())
RECURSIVE sum_correct(_)
sum_correct(results_df) ==
    IF results_df = <<>> THEN 0
    ELSE (IF Head(results_df).correct THEN 1 ELSE 0) + sum_correct(Tail(results_df))

\* lines 158-160; the rate correct / total is the fraction <<correct, total>>,
\* the rate 0 is <<0, 1>>
aggregate(results_df) ==
    LET total == Len(results_df)
        correct == sum_correct(results_df)
        acc == IF total # 0 THEN <<correct, total>> ELSE <<0, 1>>
    IN  <<total, correct, acc>>

\* lines 155-166: the metrics the block shows, <<>> for "No verified
\* predictions yet."
accuracy_tracker(f) ==
    LET results_df == load_results(f)
    IN  IF results_df # <<>> THEN aggregate(results_df) ELSE <<>>

\* ---- one execution of main() ----
\* The state a run works on: the files and the session's st.session_state.
RunState(s) ==
    [f |-> fs, history |-> history[s], last_prediction |-> last_prediction[s],
     shown |-> <<>>]

\* lines 105-106: a new session starts from the persisted history
main_session(st, isStarted) ==
    IF isStarted THEN st
    ELSE [st EXCEPT !.history = load_history(st.f),
                    !.last_prediction = NoPrediction]

\* main_upload passing the imported values through normalize_input
main_upload_normalized(st, upl) ==
    IF upl # NoUpload
    THEN LET csv == load_csv(upl)
             data == [i \in 1..Len(csv) |-> normalize_input(csv[i])]
         IN  [st EXCEPT !.history = data, !.f = save_history(st.f, data)]
    ELSE st

\* lines 110-114: the uploader returns the file it holds on every run
main_upload(st, upl) ==
    IF upl # NoUpload
    THEN LET data == load_csv(upl)
         IN  [st EXCEPT !.history = data, !.f = save_history(st.f, data)]
    ELSE st

\* lines 117-123
main_reset(st, clicked) ==
    IF clicked
    THEN LET f1 == reset_balance(save_history(st.f, <<>>))
             f2 == IF exists(f1, HISTORY_FILE) THEN remove(f1, HISTORY_FILE) ELSE f1
         IN  [st EXCEPT !.history = <<>>, !.f = f2]
    ELSE st

\* main_add without "del st.session_state.last_prediction"
main_add_nodel(st, clicked, new_val) ==
    IF clicked /\ float(new_val) # <<>>
    THEN LET val == normalize_input(float(new_val)[1])
             f1 == IF st.last_prediction # NoPrediction
                   THEN save_result(st.f, st.last_prediction, val)
                   ELSE st.f
             h1 == Append(st.history, val)
         IN  [st EXCEPT !.history = h1,
                        !.f = save_history(f1, h1)]
    ELSE st

\* main_add saving the new value after the persisted history, not after the
\* session's
main_add_savefile(st, clicked, new_val) ==
    IF clicked /\ float(new_val) # <<>>
    THEN LET val == normalize_input(float(new_val)[1])
             f1 == IF st.last_prediction # NoPrediction
                   THEN save_result(st.f, st.last_prediction, val)
                   ELSE st.f
             h1 == Append(st.history, val)
         IN  [st EXCEPT !.last_prediction = NoPrediction,
                        !.history = h1,
                        !.f = save_history(f1, Append(load_history(f1), val))]
    ELSE st

\* main_add putting the new value in front: history.insert(0, val)
main_add_prepend(st, clicked, new_val) ==
    IF clicked /\ float(new_val) # <<>>
    THEN LET val == normalize_input(float(new_val)[1])
             f1 == IF st.last_prediction # NoPrediction
                   THEN save_result(st.f, st.last_prediction, val)
                   ELSE st.f
             h1 == <<val>> \o st.history
         IN  [st EXCEPT !.last_prediction = NoPrediction,
                        !.history = h1,
                        !.f = save_history(f1, h1)]
    ELSE st

\* lines 127-138
main_add(st, clicked, new_val) ==
    IF clicked /\ float(new_val) # <<>>
    THEN LET val == normalize_input(float(new_val)[1])
             f1 == IF st.last_prediction # NoPrediction
                   THEN save_result(st.f, st.last_prediction, val)
                   ELSE st.f
             h1 == Append(st.history, val)
         IN  [st EXCEPT !.last_prediction = NoPrediction,
                        !.history = h1,
                        !.f = save_history(f1, h1)]
    ELSE st

\* lines 140-153
main_predict(st, min_u) ==
    IF st.history # <<>>
    THEN LET r == predict_from_unders(st.history, THRESHOLD, WINDOW, min_u)
         IN  IF r # <<>>
             THEN [st EXCEPT !.last_prediction = r[1], !.shown = r]
             ELSE st
    ELSE st

main(s, isStarted, upl, min_u, resetClicked, addClicked, new_val) ==
    main_predict(
        main_add(
            main_reset(
                main_upload(main_session(RunState(s), isStarted), upl),
                resetClicked),
            addClicked, new_val),
        min_u)

\* The run's effect on the variables.
Run(s, op, upl, min_u, resetClicked, addClicked, new_val) ==
    LET st == main(s, started[s] /\ op # "open", upl, min_u,
                   resetClicked, addClicked, new_val)
    IN  /\ fs' = st.f
        /\ started' = [started EXCEPT ![s] = TRUE]
        /\ history' = [history EXCEPT ![s] = st.history]
        /\ last_prediction' = [last_prediction EXCEPT ![s] = st.last_prediction]
        /\ uploaded' = [uploaded EXCEPT ![s] = upl]
        /\ min_unders' = [min_unders EXCEPT ![s] = min_u]
        /\ shown' = [shown EXCEPT ![s] = st.shown]

\* ---- interactions ----
\* A browser opens (or reloads) the page: fresh session state, default widgets.
Open(s) ==
    /\ Run(s, "open", NoUpload, MIN_UNDERS_FOR_ABOVE, FALSE, FALSE, "")
    /\ UNCHANGED adds

\* A CSV is dropped on the uploader.
Upload(s, file) ==
    /\ started[s]
    /\ uploaded[s] # file
    /\ Run(s, "upload", file, min_unders[s], FALSE, FALSE, "")
    /\ UNCHANGED adds

\* The file is removed from the uploader.
ClearUpload(s) ==
    /\ started[s]
    /\ uploaded[s] # NoUpload
    /\ Run(s, "clear", NoUpload, min_unders[s], FALSE, FALSE, "")
    /\ UNCHANGED adds

\* The slider is moved.
SetSlider(s, m) ==
    /\ started[s]
    /\ m # min_unders[s]
    /\ Run(s, "slider", uploaded[s], m, FALSE, FALSE, "")
    /\ UNCHANGED adds

\* "Reset all (balances & results)" is clicked.
Reset(s) ==
    /\ started[s]
    /\ Run(s, "reset", uploaded[s], min_unders[s], TRUE, FALSE, "")
    /\ UNCHANGED adds

\* "Add multiplier" is clicked with new_val in the text box.
Add(s, new_val) ==
    /\ started[s]
    /\ float(new_val) # <<>> => adds < MaxAdds
    /\ Run(s, "add", uploaded[s], min_unders[s], FALSE, TRUE, new_val)
    /\ adds' = IF float(new_val) # <<>> THEN adds + 1 ELSE adds

\* Any other widget event (the text box loses focus): a run with no button.
Rerun(s) ==
    /\ started[s]
    /\ Run(s, "rerun", uploaded[s], min_unders[s], FALSE, FALSE, "")
    /\ UNCHANGED adds

Init ==
    /\ fs = [n \in FileNames |-> <<>>]
    /\ started = [s \in Sessions |-> FALSE]
    /\ history = [s \in Sessions |-> <<>>]
    /\ last_prediction = [s \in Sessions |-> NoPrediction]
    /\ uploaded = [s \in Sessions |-> NoUpload]
    /\ min_unders = [s \in Sessions |-> MIN_UNDERS_FOR_ABOVE]
    /\ shown = [s \in Sessions |-> <<>>]
    /\ adds = 0

\* One session.
Next ==
    \/ Open(1)
    \/ \E file \in UploadIds : Upload(1, file)
    \/ ClearUpload(1)
    \/ \E m \in SliderStops : SetSlider(1, m)
    \/ Reset(1)
    \/ \E new_val \in Texts : Add(1, new_val)
    \/ Rerun(1)

Spec == Init /\ [][Next]_vars

\* Entering values by hand and replaying a saved history through the
\* uploader: the texts that normalize_input leaves unchanged, typed while the
\* uploader is empty, and the copies of history.csv, dropped on the empty
\* uploader.
RoundTripTexts == {"2.0", "2.5", "10"}

NextRoundTrip ==
    \/ ~started[1] /\ Open(1)
    \/ \E new_val \in RoundTripTexts : uploaded[1] = NoUpload /\ Add(1, new_val)
    \/ \E file \in HistoryCopyIds : uploaded[1] = NoUpload /\ Upload(1, file)
    \/ ClearUpload(1)

SpecRoundTrip == Init /\ [][NextRoundTrip]_vars

\* Two browser sessions on the same files, each run of main() taken whole:
\* opening the page, single entries and resets.
NextTwoSessions ==
    \E s \in Sessions :
        \/ Open(s)
        \/ \E new_val \in Texts : Add(s, new_val)
        \/ Reset(s)

SpecTwoSessions == Init /\ [][NextTwoSessions]_vars

\* ---- properties ----
\* The step is a valid single entry of session 1.
ValidEntry == \E t \in Texts : float(t) # <<>> /\ Add(1, t)

\* The step is a valid single entry made while a prediction is pending.
Settlement == ValidEntry /\ last_prediction[1] # NoPrediction

Last(q) == q[Len(q)]

\* the Result Ledger and the balances as a reader of the files sees them
Ledger == load_results(fs)
FlatBalance == get_flat_balance(fs)
FixedBalance == get_fixed_balance(fs)

\* number of the last 20 entries of h strictly below 2.0
UnderCount(h) == Cardinality({i \in (Len(h) - 19)..Len(h) : h[i] < 20000})

\* the label the Predictor gives for h and m, "absent" for fewer than 20 entries
ExpectedLabel(h, m) ==
    IF Len(h) < 20 THEN NoPrediction
    ELSE IF UnderCount(h) >= m THEN "Above" ELSE "Under"

\* C1: every settlement of a pending prediction p against the normalized
\* value a appends the record (p, a, correct) with correct true exactly when
\* (p = Above and a > 2.0) or (p = Under and a <= 2.0); a = 2.0 is correct
\* for Under and incorrect for Above.
C1_SettlementRecord ==
    [][Settlement =>
        LET p == last_prediction[1]
            a == Last(history'[1])
            r == Last(Ledger')
        IN  /\ Ledger' # <<>>
            /\ r.prediction = p
            /\ r.actual = a
            /\ r.correct = ((p = "Above" /\ a > 20000) \/ (p = "Under" /\ a <= 20000))
            /\ a = 20000 => (r.correct = (p = "Under"))]_vars

\* an Above prediction was settled against exactly 2.0 and recorded incorrect
C1_Witness ==
    /\ Ledger # <<>>
    /\ Last(Ledger) = [prediction |-> "Above", actual |-> 20000, correct |-> FALSE]

\* C2: settling an Above prediction changes the flat balance by +0.01 and
\* the fixed balance by +0.02 when actual > 2.0, and by -0.01 and -0.02
\* otherwise (actual = 2.0 included): one stake per account per settlement.
C2_AboveDeltas ==
    [][(Settlement /\ last_prediction[1] = "Above") =>
        LET a == Last(history'[1])
        IN  /\ a > 20000 => /\ FlatBalance' = FlatBalance + 1
                            /\ FixedBalance' = FixedBalance + 2
            /\ a <= 20000 => /\ FlatBalance' = FlatBalance - 1
                             /\ FixedBalance' = FixedBalance - 2]_vars

\* one Above prediction settled against exactly 2.0: both accounts lost a stake
C2_Witness ==
    /\ Ledger = <<[prediction |-> "Above", actual |-> 20000, correct |-> FALSE]>>
    /\ FlatBalance = 9
    /\ FixedBalance = 8

\* C3: settling an Under prediction leaves both balance files as they were,
\* whatever the actual value.
C3_UnderLeavesBalances ==
    [][(Settlement /\ last_prediction[1] = "Under") =>
        /\ fs'[FLAT_FILE] = fs[FLAT_FILE]
        /\ fs'[FIXED_FILE] = fs[FIXED_FILE]]_vars

\* a wrong and a right Under prediction were settled, the balances untouched
C3_Witness ==
    /\ Len(Ledger) = 2
    /\ \A i \in 1..2 : Ledger[i].prediction = "Under"
    /\ \E i \in 1..2 : Ledger[i].correct
    /\ \E i \in 1..2 : ~Ledger[i].correct
    /\ fs[FLAT_FILE] = <<>>
    /\ fs[FIXED_FILE] = <<>>

\* C4: the slot holds at most one prediction, and a valid single entry made
\* while a prediction is pending settles it exactly once (one record, for
\* that prediction and that observation), after which the slot holds the
\* prediction formed from the extended history, or nothing when the history
\* is too short.
C4_SettleThenPredict ==
    [][Settlement =>
        /\ Len(Ledger') = Len(Ledger) + 1
        /\ SubSeq(Ledger', 1, Len(Ledger)) = Ledger
        /\ Last(Ledger').prediction = last_prediction[1]
        /\ Last(Ledger').actual = Last(history'[1])
        /\ last_prediction'[1] \in Labels \cup {NoPrediction}
        /\ last_prediction'[1] = ExpectedLabel(history'[1], min_unders'[1])]_vars

\* a pending prediction was settled by the 21st entry and the next one formed
C4_Witness ==
    /\ Len(history[1]) = 21
    /\ Len(Ledger) = 1
    /\ Ledger[1].actual = Last(history[1])
    /\ last_prediction[1] = "Above"
    /\ Ledger[1].prediction = "Under"

\* C5: a valid single entry made when no prediction is pending appends the
\* normalized value to Outcome History and leaves the Result Ledger and both
\* balances unchanged.
C5_EntryWithoutPending ==
    [][\A t \in Texts :
        (float(t) # <<>> /\ Add(1, t) /\ last_prediction[1] = NoPrediction) =>
            /\ history'[1] = Append(history[1], normalize_input(float(t)[1]))
            /\ fs'[RESULTS_FILE] = fs[RESULTS_FILE]
            /\ fs'[FLAT_FILE] = fs[FLAT_FILE]
            /\ fs'[FIXED_FILE] = fs[FIXED_FILE]]_vars

\* C6: predict gives the insufficient-data result for every history shorter
\* than 20; for a history of at least 20 entries and every minUndersForAbove
\* in 10..20 it gives the number of the last 20 entries strictly below 2.0,
\* with Above when that number is at least minUndersForAbove and Under
\* otherwise; the prediction block shows that result for the slider's value.
C6_Predictor ==
    started[1] =>
        LET h == history[1]
            expect(m) == IF Len(h) < 20 THEN <<>>
                         ELSE <<ExpectedLabel(h, m), UnderCount(h)>>
        IN  /\ \A m \in 10..20 : predict_from_unders(h, THRESHOLD, WINDOW, m) = expect(m)
            /\ shown[1] = expect(min_unders[1])

\* 22 entries, a 2.0 inside the window and an entry below 2.0 older than the
\* window, neither counted; the count meets the slider's value exactly
C6_Witness ==
    /\ Len(history[1]) = 22
    /\ history[1][2] < 20000
    /\ \E i \in 3..22 : history[1][i] = 20000
    /\ min_unders[1] = 13
    /\ shown[1] = <<"Above", 13>>

\* C7: right after a reset both balances read 0.1, Outcome History is empty
\* in the session and as persisted, and the Result Ledger is empty.
C7_ResetClears ==
    [][Reset(1) =>
        /\ FlatBalance' = 10
        /\ FixedBalance' = 10
        /\ history'[1] = <<>>
        /\ load_history(fs') = <<>>
        /\ Ledger' = <<>>]_vars

\* entries were made and settled state written, and a reset has removed it
C7_Witness ==
    /\ adds > 0
    /\ started[1]
    /\ history[1] = <<>>
    /\ \A n \in FileNames : fs[n] = <<>>
    /\ last_prediction[1] = NoPrediction

\* C8: right after a reset no prediction is pending and the history is
\* empty: the round state machine is back in Idle.
C8_ResetIdle ==
    [][Reset(1) =>
        /\ last_prediction'[1] = NoPrediction
        /\ history'[1] = <<>>]_vars

\* C9: an unparseable manual entry changes nothing: the history (session
\* and file), the Result Ledger, both balances and the pending slot.
C9_InvalidEntryNoChange ==
    [][\A t \in Texts : (float(t) = <<>> /\ Add(1, t)) =>
        /\ history' = history
        /\ fs' = fs
        /\ last_prediction' = last_prediction]_vars

\* C10: every valid single entry leaves the history equal to the previous
\* history, unchanged and in order, with the one normalized value at the end.
C10_AppendOnly ==
    [][\A t \in Texts : (float(t) # <<>> /\ Add(1, t)) =>
        /\ Len(history'[1]) = Len(history[1]) + 1
        /\ SubSeq(history'[1], 1, Len(history[1])) = history[1]
        /\ Last(history'[1]) = normalize_input(float(t)[1])]_vars

\* C11: between resets the Result Ledger only grows: a settlement appends
\* exactly one record at the end, and a step that is not a reset (single
\* entry, bulk import, slider change, any other run) changes, reorders or
\* removes no existing record and adds none without a settlement.
C11_LedgerAppendOnly ==
    [][~Reset(1) =>
        /\ Len(Ledger') >= Len(Ledger)
        /\ SubSeq(Ledger', 1, Len(Ledger)) = Ledger
        /\ Settlement => Len(Ledger') = Len(Ledger) + 1
        /\ ~Settlement => Ledger' = Ledger]_vars

\* two settlements were recorded in order and a file was imported afterwards
C11_Witness ==
    /\ Len(Ledger) = 2
    /\ Ledger[1] # Ledger[2]
    /\ uploaded[1] = "B"
    /\ history[1] = Uploads.B.cols[1]

\* C12: normalize(v) is v / 100 for v > 10 and v for v <= 10 (10 itself is
\* unchanged), and a single manual entry appends normalize(parsed input)
\* to the history and settles the pending prediction against it.
C12_NormalizedEntry ==
    [][\A t \in Texts : (float(t) # <<>> /\ Add(1, t)) =>
        LET v == float(t)[1]
            a == Last(history'[1])
        IN  /\ v > 100000 => a * 100 = v
            /\ v <= 100000 => a = v
            /\ last_prediction[1] # NoPrediction => Last(Ledger').actual = a]_vars

\* "10" was entered and settled as 10, then "150" as 1.5
C12_Witness ==
    /\ Len(Ledger) = 2
    /\ Ledger[1].actual = 100000
    /\ Ledger[2].actual = 15000
    /\ Len(history[1]) = 22
    /\ SubSeq(history[1], 21, 22) = <<100000, 15000>>

\* the multipliers of the two CSV files, in file order, as written in them
ImportedValues ==
    [A |-> <<20000>> \o Rep(15000, 13) \o Rep(25000, 6),
     B |-> <<1870000>> \o Rep(15000, 18)]

\* C13: a bulk import replaces Outcome History (session and file) with the
\* imported values in file order, stores them without normalization (187
\* stays 187), and leaves the Result Ledger and both balances unchanged.
C13_BulkImport ==
    [][\A file \in UploadIds : Upload(1, file) =>
        /\ history'[1] = ImportedValues[file]
        /\ load_history(fs') = ImportedValues[file]
        /\ file = "B" => history'[1][1] > 100000
        /\ fs'[RESULTS_FILE] = fs[RESULTS_FILE]
        /\ fs'[FLAT_FILE] = fs[FLAT_FILE]
        /\ fs'[FIXED_FILE] = fs[FIXED_FILE]]_vars

\* file B was imported over a longer history after an Above prediction had
\* been settled: 187 is stored as typed, the ledger and balances are kept
C13_Witness ==
    /\ uploaded[1] = "B"
    /\ Len(history[1]) = 19
    /\ history[1][1] = 1870000
    /\ Len(Ledger) = 1
    /\ Ledger[1].prediction = "Above"
    /\ FlatBalance # 10
    /\ FixedBalance # 10

\* C14: round trip.  Entering values that normalization leaves unchanged one
\* at a time, starting from the empty history, builds the history of exactly
\* those values in order, and importing that same sequence in bulk yields the
\* same Outcome History, in the session and as persisted.
C14_RoundTrip ==
    [][/\ \A t \in RoundTripTexts : (uploaded[1] = NoUpload /\ Add(1, t)) =>
            history'[1] = Append(history[1], float(t)[1])
       /\ \A file \in HistoryCopyIds :
            (Upload(1, file) /\ history[1] = HistoryCopies[file]) =>
                /\ history'[1] = history[1]
                /\ load_history(fs') = load_history(fs)]_vars

\* 2.5 and 10 were entered by hand and their saved copy was then imported
C14_Witness ==
    /\ adds = 2
    /\ uploaded[1] = "H23"
    /\ history[1] = <<25000, 100000>>
    /\ load_history(fs) = <<25000, 100000>>

\* the metrics shown agree with the ledger: total, correct and the rate
AggregateOf(m, led) ==
    /\ m[1] = Len(led)
    /\ m[2] = Cardinality({i \in 1..Len(led) : led[i].correct})
    /\ 0 <= m[2] /\ m[2] <= m[1]
    /\ m[3][2] # 0
    /\ IF m[1] = 0 THEN m[3][1] = 0 ELSE m[3][1] * m[1] = m[2] * m[3][2]

\* C15: the accuracy aggregate has total = number of records, correct =
\* number of records marked correct and rate = correct / total, or 0 when
\* total = 0, so 0 <= correct <= total always; total is the number of
\* settlements since the last reset (0 at the start and after a reset, one
\* more after each settlement, unchanged by every other step).
C15_Accuracy ==
    /\ [](/\ AggregateOf(aggregate(Ledger), Ledger)
          /\ AggregateOf(aggregate(<<>>), <<>>)
          /\ Ledger # <<>> => accuracy_tracker(fs) = aggregate(Ledger))
    /\ aggregate(Ledger)[1] = 0
    /\ [][LET total == aggregate(Ledger)[1]
              totalAfter == aggregate(Ledger')[1]
          IN  IF Reset(1) THEN totalAfter = 0
              ELSE IF Settlement THEN totalAfter = total + 1
              ELSE totalAfter = total]_vars

\* two settlements, one of them correct: total 2, correct 1, rate 1/2
C15_Witness ==
    /\ Len(Ledger) = 2
    /\ accuracy_tracker(fs) = <<2, 1, <<1, 2>>>>

\* C16: after every completed interaction a prediction is pending if and
\* only if Outcome History has at least 20 entries, and its label is the
\* Predictor's label for the current history and the current
\* minUndersForAbove.
C16_PendingMatchesHistory ==
    started[1] => last_prediction[1] = ExpectedLabel(history[1], min_unders[1])

\* C17: the two accounts move in lockstep: in every reachable state of one
\* session fixedBalance - 0.1 = 2 * (flatBalance - 0.1); the two balance
\* files are written by the same settlements and removed together.
C17_Lockstep ==
    /\ FixedBalance - 10 = 2 * (FlatBalance - 10)
    /\ (fs[FLAT_FILE] = <<>>) <=> (fs[FIXED_FILE] = <<>>)

\* one Above prediction won: 0.11 and 0.12
C17_Witness ==
    /\ FlatBalance = 11
    /\ FixedBalance = 12
    /\ Len(Ledger) = 1

\* records of led with prediction Above that are correct (c) or incorrect (~c)
AboveRecords(led, c) ==
    Cardinality({i \in 1..Len(led) : led[i].prediction = "Above" /\ led[i].correct = c})

\* C18: the balances agree with a replay of the Result Ledger: flatBalance =
\* 0.1 + 0.01 * (W - L) and fixedBalance = 0.1 + 0.02 * (W - L), W and L the
\* numbers of correct and incorrect Above records.
C18_ReplayAgrees ==
    LET W == AboveRecords(Ledger, TRUE)
        L == AboveRecords(Ledger, FALSE)
    IN  /\ FlatBalance = 10 + 1 * (W - L)
        /\ FixedBalance = 10 + 2 * (W - L)

\* an Above loss and an Under record: the replay counts only the first
C18_Witness ==
    /\ Len(Ledger) = 2
    /\ AboveRecords(Ledger, FALSE) = 1
    /\ AboveRecords(Ledger, TRUE) = 0
    /\ \E i \in 1..2 : Ledger[i].prediction = "Under"
    /\ FlatBalance = 9
    /\ FixedBalance = 8

\* C19: with two sessions on the same files every save writes the saving
\* session's own in-memory history, so the persisted Outcome History is
\* always the history of one of the sessions (or gone), whatever the other
\* session has appended and saved; an outcome saved by one session is lost
\* from the file when the other session saves.
C19_FileIsOneSessionsHistory ==
    (\E s \in Sessions : started[s]) =>
        \/ \E s \in Sessions : started[s] /\ load_history(fs) = history[s]
        \/ fs[HISTORY_FILE] = <<>>

\* session 1 entered and saved 2.5, session 2 then entered and saved 2.0
\* from its own empty history: 2.5 is absent from history.csv
C19_Witness ==
    /\ started[1] /\ started[2]
    /\ history[1] = <<25000>>
    /\ history[2] = <<20000>>
    /\ load_history(fs) = <<20000>>
====
